---- MODULE Spec2Model ----
(***************************************************************************)
(* GATT client of BlueZ (attrib/client.c): one gatt_service with its       *)
(* primaries, characteristics and watchers, the refcounted GAttrib         *)
(* transport it shares between operations, the discovery watchdog and the  *)
(* D-Bus replies it sends.                                                 *)
(*                                                                         *)
(* GAttrib (gattrib.c), btio (btio.c) and the GATT procedures (gatt.c) are *)
(* not part of attrib/client.c; they are modelled by their contract: a     *)
(* reference count whose last unref destroys the transport and drops its   *)
(* queue, a FIFO of requests answered one at a time, and event handlers    *)
(* that are invoked once per registration.                                 *)
(***************************************************************************)
EXTENDS Integers, Sequences, FiniteSets, TLC

\* ---------------------------------------------------------------- bounds
MaxCalls == 2      \* operations started and disconnections asked for in one run
MaxWatchers == 2   \* a watcher is registered while fewer watchers and handlers exist
MaxSecErrors == 2  \* security errors the remote answers with in one run
MaxRediscoveries == 1  \* discoveries of a primary loaded from its cache

\* ------------------------------------------------------ program constants
ATT_ECODE_AUTHENTICATION == 5
ATT_ECODE_INSUFF_ENC == 15
ATT_ECODE_OTHER == 10
ATT_OP_HANDLE_NOTIFY == 27
ATT_OP_HANDLE_IND == 29
GATT_CHARAC_USER_DESC_UUID == 10497
GATT_CLIENT_CHARAC_CFG_UUID == 10498
GATT_CHARAC_FMT_UUID == 10500
OTHER_DESC_UUID == 10496

NULL == 0

\* The primaries handed to attrib_client_register (struct att_primary).
att == <<[start |-> 1, end |-> 6, uuid |-> "1800"],
         [start |-> 7, end |-> 9, uuid |-> "180f"]>>
Prims == DOMAIN att
\* The primaries whose methods are called; the others only have watchers.
Operated == {1}

\* Payloads the remote may put in a Read Response / a caller in a write.
Values == {1, 2}

\* Payloads the remote may put in the Read Response of a descriptor.
DescValues == {1}

\* Senders (D-Bus unique names) and the agent paths they register.
Senders == {"s1", "s2"}
Paths == {"/w"}

VARIABLES
    gatt,      \* struct gatt_service: attrib, listen, and the GAttrib behind attrib
    prim,      \* prim[p]: struct primary (discovery_msg, discovery_timer, chars, watchers)
    sources,   \* armed GLib timeout sources, each [id, prim]
    fault,     \* TRUE once the process has dereferenced a NULL message
    replied,   \* replied[m]: replies sent so far to D-Bus message m (history)
    out,       \* what the last handler sent: D-Bus replies, watcher calls, ATT PDUs
    ev,        \* the last handler that ran and its inputs
    calls,     \* operations started and disconnections asked for so far
    errs,      \* security errors the remote has answered with so far
    disc,      \* disc[p]: history of the discovery of p (for the reference balance)
    reg        \* gatt_services, the objects published on the bus, and the
               \* references the supplier of a transport holds on it

vars == <<gatt, prim, sources, fault, replied, out, ev, calls, errs, disc, reg>>

Msgs == 1 .. MaxCalls
NoMsg == [id |-> NULL, val |-> NULL]

Min(a, b) == IF a < b THEN a ELSE b

\* ----------------------------------------------------------- the state S
\* Handlers are written as functions of a record of the program state, so
\* that the calls they make are applied in the order of the code.
Cur == [gatt |-> gatt, prim |-> prim, sources |-> sources, fault |-> fault,
        replied |-> replied, out |-> <<>>, reg |-> reg]

Commit(s) ==
    /\ gatt' = s.gatt
    /\ prim' = s.prim
    /\ sources' = s.sources
    /\ fault' = s.fault
    /\ replied' = s.replied
    /\ out' = s.out
    /\ reg' = s.reg

\* ------------------------------------------------------------- GAttrib
NoAttrib == [attrib |-> FALSE, refs |-> 0, listen |-> FALSE, io |-> "none",
             sec |-> "LOW", events |-> 0, queue |-> <<>>, msg |-> NULL,
             hooks |-> FALSE]

\* attrib_destroy: the destroy hook clears the service's transport slot.
attrib_destroy(g) == [g EXCEPT !.attrib = FALSE]

g_attrib_ref(s) == [s EXCEPT !.gatt.refs = @ + 1]

\* g_attrib_unref: a NULL attrib is ignored; the last reference destroys the
\* transport: queued commands and event handlers are dropped, the channel
\* is closed and the destroy hook runs. Only l2cap_connect sets the hooks: a
\* transport handed to attrib_client_register has none, and the slot would
\* keep the freed pointer, whose every later use is undefined.
g_attrib_unref(s) ==
    IF ~s.gatt.attrib THEN s
    ELSE IF s.gatt.refs > 1 THEN [s EXCEPT !.gatt.refs = @ - 1]
    ELSE LET gone == [s.gatt EXCEPT !.refs = 0, !.io = "none", !.sec = "LOW",
                                    !.events = 0, !.queue = <<>>, !.hooks = FALSE]
         IN  IF s.gatt.hooks THEN [s EXCEPT !.gatt = attrib_destroy(gone)]
             ELSE [s EXCEPT !.gatt = gone, !.fault = TRUE]

\* g_attrib_send of a request: appended to the FIFO of the transport.
g_attrib_send(s, req) == [s EXCEPT !.gatt.queue = Append(@, req)]

\* g_attrib_register of events_handler for ATT_OP_HANDLE_NOTIFY and
\* ATT_OP_HANDLE_IND (always registered as a pair).
g_attrib_register(s) == [s EXCEPT !.gatt.events = @ + 1]

\* A queued request: the callback, its struct query_data (prim, chr, handle,
\* last, value) and the handle range the PDU targets; tries, msg and oper are
\* history (attempts so far, the D-Bus call the request was issued for and the
\* method that call invoked).
NoReq == [cb |-> "", prim |-> 0, chr |-> 0, handle |-> 0, last |-> FALSE,
          value |-> 0, target |-> 0, tend |-> 0, tries |-> 1, msg |-> NULL,
          oper |-> ""]

\* ---------------------------------------------------------------- D-Bus
Reply(id, text, arg) == [t |-> "reply", id |-> id, text |-> text, arg |-> arg]

\* What a method handler returns for the call it serves (a synchronous reply).
Return(text) == [t |-> "return", id |-> NULL, text |-> text, arg |-> <<>>]

\* g_dbus_send_message of a reply to message id. A reply built for a NULL
\* message is NULL and nothing is sent.
g_dbus_send_message(s, reply) ==
    IF reply.id = NULL THEN s
    ELSE [s EXCEPT !.out = Append(@, reply),
                   !.replied[reply.id] = Min(@ + 1, 2)]

\* Messages still referenced by the program (dbus_message_ref is never undone;
\* a message stays referenced while a field or a request names it).
LiveMsgs ==
    {prim[p].discovery_msg : p \in Prims}
    \cup UNION {{prim[p].chars[i].msg.id : i \in DOMAIN prim[p].chars} : p \in Prims}
    \cup {gatt.queue[i].msg : i \in DOMAIN gatt.queue}
    \cup {disc[p].msg : p \in Prims}

FreeMsgs == Msgs \ LiveMsgs
NewMsg == CHOOSE m \in FreeMsgs : \A n \in FreeMsgs : m <= n

\* ------------------------------------------------------- GLib timeouts
SourceIds(s) == {x.id : x \in s.sources}
\* The ids come from a counter: the id of a source that was there when the
\* handler began is not given again in it, removed or not.
NewSource(s) ==
    LET used == SourceIds(s) \cup {x.id : x \in sources} IN
    CHOOSE i \in 1 .. Cardinality(used) + 1 :
        i \notin used /\ \A j \in 1 .. Cardinality(used) + 1 : j \notin used => i <= j

\* prim->discovery_timer = g_timeout_add_seconds(GATT_TIMEOUT,
\*                                     stop_discovery_timeout, prim)
g_timeout_add_seconds(s, p) ==
    LET id == NewSource(s) IN
    [s EXCEPT !.sources = @ \cup {[id |-> id, prim |-> p]},
              !.prim[p].discovery_timer = id]

g_source_remove(s, id) == [s EXCEPT !.sources = {x \in @ : x.id # id}]

\* ------------------------------------------------------------ transport
\* bt_io_set(io, BT_IO_OPT_SEC_LEVEL, BT_IO_SEC_HIGH): sets the level of the
\* socket whatever it was; ok is the result of the setsockopt.
bt_io_set(s, ok) == IF ok THEN [s EXCEPT !.gatt.sec = "HIGH"] ELSE s

\* l2cap_connect: reuse the transport when there is one (one more reference),
\* otherwise start connecting; io_ok is FALSE when bt_io_connect returns NULL.
l2cap_connect(s, listen, io_ok) ==
    IF s.gatt.attrib
    THEN [g_attrib_ref(s) EXCEPT !.gatt.listen = listen]
    ELSE IF ~io_ok THEN s
    ELSE [s EXCEPT !.gatt = [@ EXCEPT !.attrib = TRUE, !.refs = 1,
                                      !.io = "connecting", !.sec = "LOW",
                                      !.listen = listen, !.hooks = TRUE]]

l2cap_connect_failed(s, io_ok) == ~s.gatt.attrib /\ ~io_ok

\* ------------------------------------------------------------ discovery
\* stop_discovery: fail the pending discovery of p, if any, and release a
\* reference. The timer field is cleared; the source is not removed.
stop_discovery_keeps_msg(s, p) ==
    LET s1 == [s EXCEPT !.prim[p].discovery_timer = 0] IN
    IF s1.prim[p].discovery_msg = NULL THEN s1
    ELSE g_attrib_unref(g_dbus_send_message(s1,
             Reply(s1.prim[p].discovery_msg,
                   "Discover characteristic values timed out", <<>>)))

stop_discovery(s, p) ==
    LET s1 == [s EXCEPT !.prim[p].discovery_timer = 0] IN
    IF s1.prim[p].discovery_msg = NULL THEN s1
    ELSE LET reply == Reply(s1.prim[p].discovery_msg,
                            "Discover characteristic values timed out", <<>>)
             s2 == g_dbus_send_message(s1, reply)
             s3 == [s2 EXCEPT !.prim[p].discovery_msg = NULL]
         IN  g_attrib_unref(s3)

RECURSIVE stop_all(_, _)
stop_all(s, p) == IF p > Len(att) THEN s ELSE stop_all(stop_discovery(s, p), p + 1)

\* attrib_disconnect: stop every discovery, then release one more reference.
attrib_disconnect(s) == g_attrib_unref(stop_all(s, 1))

\* create_discovery_reply: the paths of the characteristics of the primary.
create_discovery_reply(s, p) ==
    Reply(s.prim[p].discovery_msg, "ok",
          [i \in DOMAIN s.prim[p].chars |-> s.prim[p].chars[i].handle])

\* What gatt_discover_char may hand to char_discovered_cb for primary p:
\* lists of struct att_char (declaration handle, value handle, properties, uuid).
att_char(h) == [handle |-> h, value_handle |-> h + 1, properties |-> 10,
                uuid |-> <<"2", "a", "0", "0">>]
RemoteChars(p) == {<<>>, <<att_char(att[p].start)>>}

\* A uuid in its 128-bit form, 36 characters.
Uuid128 ==
    <<
      "0", "0", "0", "0", "2", "a", "1", "9", "-", "0", "0", "0", "0",
      "-", "1", "0", "0", "0", "-", "8", "0", "0", "0", "-", "0", "0",
      "8", "0", "5", "f", "9", "b", "3", "4", "f", "b"
    >>

\* The lists of a remote whose primary declares a characteristic at its first
\* handle, at its third handle, at both, or none, or one whose value is the
\* last attribute of the primary: in handle order, as the Discover All
\* Characteristics procedure returns them.
LayoutChars(p) ==
    LET a == att_char(att[p].start)
        b == [att_char(att[p].start + 2) EXCEPT !.properties = 18, !.uuid = Uuid128]
        c == att_char(att[p].end - 1)
    IN  {<<>>, <<a>>, <<b>>, <<a, b>>, <<c>>}

\* g_new0(struct characteristic) filled from a struct att_char.
new_characteristic(cur) ==
    [handle |-> cur.value_handle, end |-> 0, perm |-> cur.properties,
     type |-> cur.uuid, value |-> NULL, msg |-> NoMsg,
     cli_conf_hndl |-> 0, cli_conf |-> 0, desc |-> NULL, format |-> NULL]

\* The loop of char_discovered_cb: skip the characteristics already known by
\* value handle, append the others, and set the end of the previously created
\* one to the declaration handle of the current one.
RECURSIVE add_characteristics(_, _, _, _)
add_characteristics(chars, list, i, previous_end) ==
    IF i > Len(list) THEN [chars |-> chars, previous_end |-> previous_end]
    ELSE LET cur == list[i] IN
         IF \E k \in DOMAIN chars : chars[k].handle = cur.value_handle
         THEN add_characteristics(chars, list, i + 1, previous_end)
         ELSE LET patched == IF previous_end # 0
                             THEN [chars EXCEPT ![previous_end].end = cur.handle]
                             ELSE chars
              IN  add_characteristics(Append(patched, new_characteristic(cur)),
                                      list, i + 1, Len(patched) + 1)

\* The same without the lookup of the value handle among the characteristics
\* the primary has.
discovered_chars_unmatched(chars, characteristics, end) ==
    LET r == add_characteristics(<<>>, characteristics, 1, 0) IN
    chars \o (IF r.previous_end # 0
              THEN [r.chars EXCEPT ![r.previous_end].end = end]
              ELSE r.chars)

\* The characteristics of a primary after char_discovered_cb has merged the
\* list: the last created one ends where the primary ends.
discovered_chars(chars, characteristics, end) ==
    LET r == add_characteristics(chars, characteristics, 1, 0) IN
    IF r.previous_end # 0
    THEN [r.chars EXCEPT ![r.previous_end].end = end]
    ELSE r.chars

\* update_all_chars: for every characteristic a Find Information and a Read of
\* the value, each with a reference of its own; the Read of the last
\* characteristic is tagged last; then the watchdog is armed.
RECURSIVE update_chars_from(_, _, _)
update_chars_from(s, p, k) ==
    LET chars == s.prim[p].chars IN
    IF k > Len(chars) THEN s
    ELSE LET chr == chars[k]
             qdesc == [NoReq EXCEPT !.cb = "descriptor_cb", !.prim = p, !.chr = k,
                                    !.target = chr.handle + 1, !.tend = chr.end,
                                    !.msg = s.prim[p].discovery_msg,
                                    !.oper = "discover_char"]
             qvalue == [NoReq EXCEPT !.cb = "update_char_value", !.prim = p,
                                     !.chr = k, !.last = (k = Len(chars)),
                                     !.target = chr.handle,
                                     !.msg = s.prim[p].discovery_msg,
                                     !.oper = "discover_char"]
             s1 == g_attrib_send(g_attrib_ref(s), qdesc)
             s2 == g_attrib_send(g_attrib_ref(s1), qvalue)
         IN  update_chars_from(s2, p, k + 1)

update_all_chars(s, p) == g_timeout_add_seconds(update_chars_from(s, p, 1), p)

\* The objects of the bus: "%s/service%04x" of a primary (chr 0) and
\* "%s/characteristic%04x" of a characteristic, by value handle.
PrimPath(p) == [prim |-> p, chr |-> 0]
ChrPath(p, handle) == [prim |-> p, chr |-> handle]

\* register_characteristics: an interface for every characteristic of p.
register_characteristics(s, p) ==
    [s EXCEPT !.reg.objects =
        @ \cup {ChrPath(p, s.prim[p].chars[k].handle) : k \in DOMAIN s.prim[p].chars}]

\* char_discovered_cb, with the request already taken off the queue.
char_discovered_cb(s, current, characteristics, status) ==
    LET p == current.prim IN
    IF status # 0
    THEN g_attrib_unref(g_dbus_send_message(s,
             Reply(s.prim[p].discovery_msg, "att error", <<>>)))
    ELSE update_all_chars(
             register_characteristics(
               [s EXCEPT !.prim[p].chars = discovered_chars(@, characteristics, att[p].end)],
               p), p)

\* --------------------------------------------------- characteristic values
\* A value whose bytes are freed (chr->value is NULL) while chr->vlen still
\* has the length of the bytes it had.
Dangling == NULL - 1

\* characteristic_set_value: g_try_realloc to the new length, then the copy
\* and the length. For a length of zero g_try_realloc frees the bytes and
\* returns NULL, and the function returns -ENOMEM before it sets vlen.
characteristic_set_value(s, p, c, value) ==
    IF value # NULL THEN [s EXCEPT !.prim[p].chars[c].value = value]
    ELSE IF s.prim[p].chars[c].value = NULL THEN s
    ELSE [s EXCEPT !.prim[p].chars[c].value = Dangling]

characteristic_set_cli_conf(s, p, c, value) ==
    [s EXCEPT !.prim[p].chars[c].cli_conf = value]

SecurityError(status) ==
    status = ATT_ECODE_INSUFF_ENC \/ status = ATT_ECODE_AUTHENTICATION

\* The request a callback issues again with the same query_data.
Again(current) == [current EXCEPT !.tries = @ + 1]

\* update_char_value, with the request already taken off the queue: status and
\* value are the Read Response, set_ok the result of bt_io_set.
update_char_value(s, current, status, value, set_ok) ==
    LET p == current.prim
        c == current.chr
        s1 == IF status = 0 THEN characteristic_set_value(s, p, c, value)
              ELSE IF SecurityError(status) THEN bt_io_set(s, set_ok)
              ELSE s
    IN
    IF SecurityError(status) /\ set_ok
    THEN g_attrib_send(s1, Again(current))
    ELSE
    LET s2 ==
          IF s1.prim[p].discovery_msg # NULL
          THEN LET t1 == IF s1.prim[p].discovery_timer > 0
                         THEN g_source_remove(s1, s1.prim[p].discovery_timer)
                         ELSE s1
                   t2 == [t1 EXCEPT !.prim[p].discovery_timer = 0]
               IN  IF current.last
                   THEN [g_dbus_send_message(t2, create_discovery_reply(t2, p))
                            EXCEPT !.prim[p].discovery_msg = NULL]
                   ELSE g_timeout_add_seconds(t2, p)
          ELSE IF s1.prim[p].chars[c].msg # NoMsg
          THEN LET reply == Reply(s1.prim[p].chars[c].msg.id,
                                  IF status = 0 THEN "ok"
                                  ELSE "Update characteristic value failed", <<>>)
               IN  [g_dbus_send_message(s1, reply)
                       EXCEPT !.prim[p].chars[c].msg = NoMsg]
          ELSE s1
    IN  g_attrib_unref(s2)

\* update_char_cli_conf: a Read Response of exactly 3 bytes sets cli_conf.
update_char_cli_conf(s, current, status, len3, value) ==
    g_attrib_unref(
        IF status = 0 /\ len3
        THEN characteristic_set_cli_conf(s, current.prim, current.chr, value)
        ELSE s)

\* update_char_desc: the user description; retried after a security error.
update_char_desc(s, current, status, value, set_ok) ==
    IF status = 0
    THEN g_attrib_unref([s EXCEPT !.prim[current.prim].chars[current.chr].desc = value])
    ELSE IF SecurityError(status)
    THEN IF set_ok THEN g_attrib_send(bt_io_set(s, set_ok), Again(current))
         ELSE g_attrib_unref(bt_io_set(s, set_ok))
    ELSE g_attrib_unref(s)

\* update_char_format: a Read Response of at least 8 bytes sets the format.
update_char_format(s, current, status, len8, value) ==
    g_attrib_unref(
        IF status = 0 /\ len8
        THEN [s EXCEPT !.prim[current.prim].chars[current.chr].format = value]
        ELSE s)

\* What a Find Information Response may list for the range of a request: at
\* most one descriptor, at the first handle of the range.
DescUuids == {GATT_CLIENT_CHARAC_CFG_UUID, GATT_CHARAC_USER_DESC_UUID,
              GATT_CHARAC_FMT_UUID, OTHER_DESC_UUID}
RemoteDescs(req) ==
    {<<>>} \cup (IF req.target <= req.tend
                 THEN {<<[handle |-> req.target, uuid |-> u]>> : u \in DescUuids}
                 ELSE {})

\* The loop of descriptor_cb over the entries of the response.
RECURSIVE read_descriptors(_, _, _, _, _)
read_descriptors(s, current, list, format, i) ==
    IF i > Len(list) THEN s
    ELSE IF format # 1 THEN read_descriptors(s, current, list, format, i + 1)
    ELSE LET handle == list[i].handle
             uuid == list[i].uuid
             qfmt == [NoReq EXCEPT !.prim = current.prim, !.chr = current.chr,
                                   !.handle = handle, !.target = handle,
                                   !.msg = current.msg, !.oper = current.oper]
             s1 ==
               IF uuid = GATT_CLIENT_CHARAC_CFG_UUID
               THEN g_attrib_send(
                      [g_attrib_ref(s) EXCEPT
                          !.prim[current.prim].chars[current.chr].cli_conf_hndl = handle],
                      [qfmt EXCEPT !.cb = "update_char_cli_conf"])
               ELSE IF uuid = GATT_CHARAC_USER_DESC_UUID
               THEN g_attrib_send(g_attrib_ref(s), [qfmt EXCEPT !.cb = "update_char_desc"])
               ELSE IF uuid = GATT_CHARAC_FMT_UUID
               THEN g_attrib_send(g_attrib_ref(s), [qfmt EXCEPT !.cb = "update_char_format"])
               ELSE s
         IN  read_descriptors(s1, current, list, format, i + 1)

\* descriptor_cb, with the request already taken off the queue.
descriptor_cb(s, current, status, list, format) ==
    IF status # 0 THEN g_attrib_unref(s)
    ELSE g_attrib_unref(read_descriptors(s, current, list, format, 1))

\* ------------------------------------------------------------- writes
\* gatt_write_char_resp and gatt_write_cli_conf_resp share their shape; cfg
\* tells which. On success the value is taken from the payload of chr->msg.
\* With chr->msg NULL, or replaced by a message that carries no byte array
\* (UpdateValue's), the success branch iterates over arguments that are not
\* there: the build either crashes or stores a garbage value. A NULL message
\* then makes the reply NULL and the handler return early, without releasing
\* the reference.
write_resp(s, current, status, set_ok, crash, garbage, cfg) ==
    LET p == current.prim
        c == current.chr
        chr == s.prim[p].chars[c]
        set(st, v) == IF cfg THEN characteristic_set_cli_conf(st, p, c, v)
                      ELSE characteristic_set_value(st, p, c, v)
    IN
    IF status = 0
    THEN IF chr.msg.val = NULL
         THEN IF crash THEN [s EXCEPT !.fault = TRUE]
              ELSE IF chr.msg = NoMsg THEN set(s, garbage)
              ELSE g_attrib_unref(
                     [g_dbus_send_message(set(s, garbage), Reply(chr.msg.id, "ok", <<>>))
                         EXCEPT !.prim[p].chars[c].msg = NoMsg])
         ELSE g_attrib_unref(
                [g_dbus_send_message(set(s, chr.msg.val), Reply(chr.msg.id, "ok", <<>>))
                    EXCEPT !.prim[p].chars[c].msg = NoMsg])
    ELSE IF SecurityError(status)
    THEN IF set_ok
         THEN g_attrib_send(bt_io_set(s, set_ok),
                            [Again(current) EXCEPT !.target = chr.handle])
         ELSE g_attrib_unref(bt_io_set(s, set_ok))
    ELSE g_attrib_unref(
           [g_dbus_send_message(s, Reply(chr.msg.id, "Invalid arguments", <<>>))
               EXCEPT !.prim[p].chars[c].msg = NoMsg])

gatt_write_char_resp(s, current, status, set_ok, crash, garbage) ==
    write_resp(s, current, status, set_ok, crash, garbage, FALSE)

gatt_write_cli_conf_resp(s, current, status, set_ok, crash, garbage) ==
    write_resp(s, current, status, set_ok, crash, garbage, TRUE)

\* -------------------------------------------------------------- events
\* events_handler for one PDU: opcode, attribute handle and value; short is
\* a PDU of fewer than 3 bytes. The characteristic is looked up in every
\* primary; an Indication falls through to the Notification case.
Confirmation == [t |-> "att", id |-> NULL, text |-> "confirmation", arg |-> <<>>]
ValueChanged(w, handle, value) ==
    [t |-> "ValueChanged", id |-> NULL, text |-> w.name, arg |-> <<w.path, handle, value>>]

AllChrs(s) == UNION {{<<p, c>> : c \in DOMAIN s.prim[p].chars} : p \in Prims}
FindChr(s, handle) ==
    {x \in AllChrs(s) :
        /\ s.prim[x[1]].chars[x[2]].handle = handle
        /\ \A y \in AllChrs(s) :
              (y[1] < x[1] \/ (y[1] = x[1] /\ y[2] < x[2]))
                  => s.prim[y[1]].chars[y[2]].handle # handle}

\* update_watchers for each watcher: a ValueChanged call with the path and
\* the vlen bytes at chr->value. Bytes that are not there are read all the
\* same: the process crashes, or the call carries whatever was read.
RECURSIVE update_watchers(_, _, _, _, _, _)
update_watchers(s, ws, i, handle, value, crash) ==
    IF i > Len(ws) THEN s
    ELSE IF value = Dangling /\ crash THEN [s EXCEPT !.fault = TRUE]
    ELSE update_watchers([s EXCEPT !.out = Append(@, ValueChanged(ws[i], handle, value))],
                         ws, i + 1, handle, value, crash)

events_handler(s, opcode, short, handle, value, crash) ==
    IF short THEN s
    ELSE IF FindChr(s, handle) = {} THEN s
    ELSE LET pc == CHOOSE x \in FindChr(s, handle) : TRUE
             s1 == IF opcode = ATT_OP_HANDLE_IND
                   THEN [s EXCEPT !.out = Append(@, Confirmation)]
                   ELSE s
             s2 == characteristic_set_value(s1, pc[1], pc[2], value)
         IN  update_watchers(s2, s2.prim[pc[1]].watchers, 1, handle,
                             s2.prim[pc[1]].chars[pc[2]].value, crash)

\* The transport invokes every handler registered for the opcode.
RECURSIVE dispatch_event(_, _, _, _, _, _, _)
dispatch_event(s, n, opcode, short, handle, value, crash) ==
    IF n = 0 \/ s.fault THEN s
    ELSE dispatch_event(events_handler(s, opcode, short, handle, value, crash),
                        n - 1, opcode, short, handle, value, crash)

\* ------------------------------------------------------------- connect_cb
connect_cb(s, gerr) ==
    IF gerr
    THEN g_attrib_unref(
           [g_dbus_send_message(s, Reply(s.gatt.msg, "connect error", <<>>))
               EXCEPT !.gatt.io = "failed"])
    ELSE LET s1 == [s EXCEPT !.gatt.io = "up"] IN
         IF ~s1.gatt.attrib THEN s1
         ELSE IF s1.gatt.listen THEN g_attrib_register(s1)
         ELSE s1

\* ------------------------------------------------------------- history
NoEv == [op |-> "", p |-> 0, c |-> 0, status |-> 0, arg |-> 0, msg |-> NULL, oper |-> "",
         list |-> <<>>, value |-> NULL, watcher |-> <<>>]
\* op: the handler; p, c: primary and characteristic (or handle); status: the
\* ATT status (or opcode); arg: a further input of the handler; list: the
\* characteristics handed to char_discovered_cb; value: the payload handed to
\* events_handler; watcher: the sender and the path of a call about a watcher.
Ev(op, p, c, status, arg) ==
    [op |-> op, p |-> p, c |-> c, status |-> status, arg |-> arg, msg |-> NULL,
     oper |-> "", list |-> <<>>, value |-> NULL, watcher |-> <<>>]

\* The callback of the request req, answered with status.
Answer(req, status, arg) ==
    [op |-> req.cb, p |-> req.prim, c |-> req.chr, status |-> status, arg |-> arg,
     msg |-> req.msg, oper |-> req.oper, list |-> <<>>, value |-> NULL, watcher |-> <<>>]

NoDisc == [st |-> "none", before |-> 0, alone |-> FALSE, msg |-> NULL, had |-> 0]

RepliesTo(o, m) == {i \in DOMAIN o : o[i].t = "reply" /\ o[i].id = m}

\* disc after a handler that led to s; own are the primaries whose discovery
\* the handler belongs to. A discovery stops being alone on the transport when
\* another operation changes the reference count, and has ended once its
\* message has been replied to.
DiscStep(own, s) ==
    [q \in Prims |->
        LET d == disc[q]
            d1 == IF q \notin own /\ s.gatt.refs # gatt.refs
                  THEN [d EXCEPT !.alone = FALSE, !.before = 0]
                  ELSE d
        IN  IF d1.st = "running" /\ RepliesTo(s.out, d1.msg) # {}
            THEN [d1 EXCEPT !.st = "ended", !.msg = NULL]
            ELSE d1]

\* A handler the transport, the main loop or the bus invokes by itself, and
\* the registration and removal of a watcher.
Done(own, s, e) ==
    /\ Commit(s)
    /\ disc' = DiscStep(own, s)
    /\ ev' = e
    /\ calls' = calls
    /\ errs' = IF SecurityError(e.status) THEN errs + 1 ELSE errs

\* A call that starts an operation or asks for a disconnection: handled while
\* the run has calls left.
Called(own, s, e) ==
    /\ Commit(s)
    /\ disc' = DiscStep(own, s)
    /\ ev' = e
    /\ calls' = calls + 1
    /\ errs' = errs

Callable == ~fault /\ calls < MaxCalls

\* ---------------------------------------------------------------- Init
\* Strings are sequences of characters.
HexDigits == <<"0", "1", "2", "3", "4", "5", "6", "7", "8", "9",
               "A", "B", "C", "D", "E", "F">>
LowerHexDigits == <<"0", "1", "2", "3", "4", "5", "6", "7", "8", "9",
                    "a", "b", "c", "d", "e", "f">>

RECURSIVE Pow16(_)
Pow16(w) == IF w = 0 THEN 1 ELSE 16 * Pow16(w - 1)

\* "%04d": w decimal digits.
DecimalString(n, w) ==
    LET Pow10(k) == IF k = 0 THEN 1 ELSE IF k = 1 THEN 10 ELSE IF k = 2 THEN 100 ELSE 1000
    IN  [i \in 1 .. w |-> HexDigits[((n \div Pow10(w - i)) % 10) + 1]]

\* "%04X" and "%02X" of a uint16_t and a uint8_t: w upper-case digits.
HexString(n, w) == [i \in 1 .. w |-> HexDigits[((n \div Pow16(w - i)) % 16) + 1]]

IsHexDigit(c) == \E d \in 1 .. 16 : HexDigits[d] = c \/ LowerHexDigits[d] = c
HexValue(c) == (CHOOSE d \in 1 .. 16 : HexDigits[d] = c \/ LowerHexDigits[d] = c) - 1

\* snprintf(chr_str, 64, "%04X#%02X#%04X#%s ", ...): at most 63 characters.
chr_str(chr) ==
    LET full == HexString(chr.handle, 4) \o <<"#">> \o HexString(chr.perm, 2) \o <<"#">>
                \o HexString(chr.end, 4) \o <<"#">> \o chr.type \o <<" ">>
    IN  SubSeq(full, 1, Min(Len(full), 63))

RECURSIVE characteristic_list_to_string(_)
characteristic_list_to_string(chars) ==
    IF chars = <<>> THEN <<>>
    ELSE chr_str(Head(chars)) \o characteristic_list_to_string(Tail(chars))

\* g_strsplit(str, " ", 0): the pieces between the spaces; none for "".
RECURSIVE split_from(_, _)
split_from(str, i) ==
    LET spaces == {j \in i .. Len(str) : str[j] = " "} IN
    IF spaces = {} THEN <<SubSeq(str, i, Len(str))>>
    ELSE LET j == CHOOSE k \in spaces : \A l \in spaces : k <= l
         IN  <<SubSeq(str, i, j - 1)>> \o split_from(str, j + 1)

g_strsplit(str) == IF str = <<>> THEN <<>> ELSE split_from(str, 1)

\* A "%04hX" style conversion of sscanf at position i: up to w hex digits.
RECURSIVE scan_hex(_, _, _, _, _)
scan_hex(s, i, w, n, val) ==
    IF w > 0 /\ i <= Len(s) /\ IsHexDigit(s[i])
    THEN scan_hex(s, i + 1, w - 1, n + 1, (val * 16 + HexValue(s[i])))
    ELSE [n |-> n, val |-> val, next |-> i]

\* sscanf(s, "%04hX#%02hhX#%04hX#%s", &handle, &perm, &end, type): the number
\* of conversions made and the fields they filled (g_new0 leaves the others 0).
sscanf_chr(s) ==
    LET none == [ret |-> 0, handle |-> 0, perm |-> 0, end |-> 0, type |-> <<>>]
        h == scan_hex(s, 1, 4, 0, 0)
        pm == scan_hex(s, h.next + 1, 2, 0, 0)
        e == scan_hex(s, pm.next + 1, 4, 0, 0)
        sep(i) == i <= Len(s) /\ s[i] = "#"
    IN  IF h.n = 0 THEN none
        ELSE LET r1 == [none EXCEPT !.ret = 1, !.handle = h.val % 65536] IN
        IF ~sep(h.next) \/ pm.n = 0 THEN r1
        ELSE LET r2 == [r1 EXCEPT !.ret = 2, !.perm = pm.val % 256] IN
        IF ~sep(pm.next) \/ e.n = 0 THEN r2
        ELSE LET r3 == [r2 EXCEPT !.ret = 3, !.end = e.val % 65536] IN
        IF ~sep(e.next) \/ e.next + 1 > Len(s) THEN r3
        ELSE [r3 EXCEPT !.ret = 4, !.type = SubSeq(s, e.next + 1, Len(s))]

\* The loop of string_to_characteristic_list over the pieces.
RECURSIVE parse_pieces(_, _)
parse_pieces(pieces, i) ==
    IF i > Len(pieces) THEN <<>>
    ELSE LET r == sscanf_chr(pieces[i]) IN
         IF r.ret < 4 THEN parse_pieces(pieces, i + 1)
         ELSE <<[handle |-> r.handle, end |-> r.end, perm |-> r.perm,
                 type |-> r.type, value |-> NULL, msg |-> NoMsg,
                 cli_conf_hndl |-> 0, cli_conf |-> 0, desc |-> NULL,
                 format |-> NULL]>> \o parse_pieces(pieces, i + 1)

string_to_characteristic_list(str) == parse_pieces(g_strsplit(str), 1)

\* What store_characteristics has written for a primary and
\* load_characteristics reads back at registration.
stored(chars) == characteristic_list_to_string(chars)

load_characteristics(str) == string_to_characteristic_list(str)

\* The cache of a primary: empty, or what an earlier discovery has stored.
\* A primary no method is called on has one characteristic in its cache.
CachesOf(p, lists) ==
    {stored(discovered_chars(<<>>, list, att[p].end)) :
        list \in IF p \in Operated THEN lists ELSE {<<att_char(att[p].start)>>}}
Caches(p) == CachesOf(p, RemoteChars(p))
LayoutCaches(p) == CachesOf(p, LayoutChars(p))

\* attrib_client_register without a transport: the primaries are created and
\* their characteristics loaded from the cache.
Peer == "dev"

\* register_primaries: a primary for every att_primary, published, with the
\* characteristics of its cache loaded and published.
RECURSIVE register_primaries(_, _, _)
register_primaries(s, cache, p) ==
    IF p > Len(att) THEN s
    ELSE LET s1 == [s EXCEPT !.prim[p] =
                       [discovery_msg |-> NULL, discovery_timer |-> 0,
                        chars |-> load_characteristics(cache[p]), watchers |-> <<>>],
                             !.reg.objects = @ \cup {PrimPath(p)}]
         IN  register_primaries(register_characteristics(s1, p), cache, p + 1)

NoPrims == [p \in Prims |-> [discovery_msg |-> NULL, discovery_timer |-> 0,
                             chars |-> <<>>, watchers |-> <<>>]]
NoReg == [services |-> {}, objects |-> {}, supplied |-> 0]

\* The caches of the primaries, one function for each choice.
CacheChoices(cached) ==
    {cache \in [Prims -> UNION {cached[p] : p \in Prims}] :
        \A p \in Prims : cache[p] \in cached[p]}

\* The state attrib_client_register(attrib = NULL) leaves.
Registered(cache) ==
    register_primaries([gatt |-> NoAttrib, prim |-> NoPrims,
                        reg |-> [NoReg EXCEPT !.services = {Peer}]], cache, 1)

registered(cached) ==
    /\ \E cache \in CacheChoices(cached) :
          /\ gatt = Registered(cache).gatt
          /\ prim = Registered(cache).prim
          /\ reg = Registered(cache).reg
    /\ sources = {}
    /\ fault = FALSE
    /\ replied = [m \in Msgs |-> 0]
    /\ out = <<>>
    /\ ev = NoEv
    /\ calls = 0
    /\ errs = 0
    /\ disc = [p \in Prims |-> NoDisc]

Init == registered([p \in Prims |-> Caches(p)])

\* The same with the caches of a remote that has up to two characteristics.
InitRediscovery == registered([p \in Prims |-> LayoutCaches(p)])

\* ------------------------------------------------------- D-Bus methods
\* The test discover_char makes before anything else.
discovery_in_progress_never(s, p) == FALSE
discovery_in_progress(s, p) == s.prim[p].discovery_msg # NULL

\* DiscoverCharacteristics
discover_char(p) ==
    /\ Callable
    /\ IF discovery_in_progress(Cur, p)
       THEN Called({p}, [Cur EXCEPT !.out = <<Return("Discovery already in progress")>>],
                 Ev("discover_char", p, 0, 0, 0))
       ELSE \E io_ok \in BOOLEAN :
                 IF l2cap_connect_failed(Cur, io_ok)
                 THEN Called({p}, [Cur EXCEPT !.out = <<Return("connect error")>>],
                           Ev("discover_char", p, 0, 0, 0))
                 ELSE LET m == NewMsg
                          s1 == l2cap_connect(Cur, TRUE, io_ok)
                          s2 == [s1 EXCEPT !.prim[p].discovery_msg = m,
                                           !.replied[m] = 0]
                          qchr == [NoReq EXCEPT !.cb = "char_discovered_cb", !.prim = p,
                                                !.target = att[p].start,
                                                !.tend = att[p].end, !.msg = m,
                                                !.oper = "discover_char"]
                          s3 == g_attrib_send(s2, qchr)
                      IN  /\ Commit(s3)
                          /\ calls' = calls + 1
                          /\ errs' = errs
                          /\ ev' = Ev("discover_char", p, 0, 0, 0)
                          /\ disc' = [DiscStep({p}, s3) EXCEPT
                                        ![p] = [st |-> "running", before |-> gatt.refs,
                                                alone |-> gatt.queue = <<>>, msg |-> m,
                                                had |-> Len(prim[p].chars)]]

\* UpdateValue
fetch_value(p, c) ==
    /\ Callable
    /\ c \in DOMAIN prim[p].chars
    /\ \E io_ok \in BOOLEAN :
         IF l2cap_connect_failed(Cur, io_ok)
         THEN Called({}, [Cur EXCEPT !.out = <<Return("connect error")>>],
                   Ev("fetch_value", p, c, 0, 0))
         ELSE LET m == NewMsg
                  s1 == l2cap_connect(Cur, FALSE, io_ok)
                  qvalue == [NoReq EXCEPT !.cb = "update_char_value", !.prim = p,
                                          !.chr = c, !.msg = m,
                                          !.oper = "fetch_value",
                                          !.target = prim[p].chars[c].handle]
                  s2 == [s1 EXCEPT !.prim[p].chars[c].msg = [id |-> m, val |-> NULL],
                                   !.replied[m] = 0]
              IN  Called({}, g_attrib_send(s2, qvalue), Ev("fetch_value", p, c, 0, 0))

\* SetProperty("Value", v) and SetProperty("ClientConfiguration", v); valid is
\* FALSE when the argument is no array of bytes.
set_property(p, c, cfg, v, valid) ==
    /\ Callable
    /\ c \in DOMAIN prim[p].chars
    /\ LET op == IF cfg THEN "set_cli_conf" ELSE "set_value" IN
       IF ~valid
       THEN Called({}, [Cur EXCEPT !.out = <<Return("Invalid arguments")>>],
                 Ev(op, p, c, 0, 0))
       ELSE \E io_ok \in BOOLEAN :
         IF l2cap_connect_failed(Cur, io_ok)
         THEN Called({}, [Cur EXCEPT !.out = <<Return("connect error")>>],
                   Ev(op, p, c, 0, 0))
         ELSE LET m == NewMsg
                  chr == prim[p].chars[c]
                  s1 == l2cap_connect(Cur, FALSE, io_ok)
                  qvalue == [NoReq EXCEPT
                               !.cb = IF cfg THEN "gatt_write_cli_conf_resp"
                                      ELSE "gatt_write_char_resp",
                               !.prim = p, !.chr = c, !.value = v, !.msg = m,
                               !.oper = op,
                               !.target = IF cfg THEN chr.cli_conf_hndl ELSE chr.handle]
                  s2 == [s1 EXCEPT !.prim[p].chars[c].msg = [id |-> m, val |-> v],
                                   !.replied[m] = 0]
              IN  Called({}, g_attrib_send(s2, qvalue), Ev(op, p, c, 0, 0))

set_value(p, c) == \E v \in Values, valid \in BOOLEAN : set_property(p, c, FALSE, v, valid)
set_cli_conf(p, c) == \E v \in Values, valid \in BOOLEAN : set_property(p, c, TRUE, v, valid)

\* RegisterCharacteristicsWatcher
register_watcher(p, sender, path, args_ok) ==
    /\ ~fault
    /\ Len(prim[p].watchers) < MaxWatchers
    /\ gatt.events < MaxWatchers
    /\ IF ~args_ok
       THEN Done({}, [Cur EXCEPT !.out = <<Return("Invalid arguments")>>],
                 Ev("register_watcher", p, 0, 0, 0))
       ELSE \E io_ok \in BOOLEAN :
         IF l2cap_connect_failed(Cur, io_ok)
         THEN Done({}, [Cur EXCEPT !.out = <<Return("connect error")>>],
                   Ev("register_watcher", p, 0, 0, 0))
         ELSE LET s1 == l2cap_connect(Cur, TRUE, io_ok)
                  s2 == g_attrib_register(s1)
                  s3 == [s2 EXCEPT !.prim[p].watchers =
                                       Append(@, [name |-> sender, path |-> path]),
                                   !.out = <<Return("ok")>>]
              IN  Done({}, g_attrib_unref(s3),
                       [Ev("register_watcher", p, 0, 1, 0) EXCEPT !.watcher = <<sender, path>>])

\* watcher_cmp through g_slist_find_custom: the first watcher with the same
\* name and path, 0 when there is none.
\* The same when watcher_cmp compares the names only.
find_watcher_by_name(ws, sender, path) ==
    LET hits == {i \in DOMAIN ws : ws[i].name = sender} IN
    IF hits = {} THEN 0 ELSE CHOOSE i \in hits : \A j \in hits : i <= j

find_watcher(ws, sender, path) ==
    LET hits == {i \in DOMAIN ws : ws[i].name = sender /\ ws[i].path = path} IN
    IF hits = {} THEN 0 ELSE CHOOSE i \in hits : \A j \in hits : i <= j

Remove(seq, i) == [j \in 1 .. Len(seq) - 1 |-> IF j < i THEN seq[j] ELSE seq[j + 1]]

\* UnregisterCharacteristicsWatcher
unregister_watcher(p, sender, path) ==
    /\ ~fault
    /\ LET l == find_watcher(prim[p].watchers, sender, path) IN
       IF l = 0
       THEN Done({}, [Cur EXCEPT !.out = <<Return("Not Authorized")>>],
                 [Ev("unregister_watcher", p, 0, 0, 0) EXCEPT !.watcher = <<sender, path>>])
       ELSE Done({}, [Cur EXCEPT !.prim[p].watchers = Remove(@, l),
                                 !.out = <<Return("ok")>>],
                 [Ev("unregister_watcher", p, 0, 1, 0) EXCEPT !.watcher = <<sender, path>>])

\* watcher_exit: the sender of watcher i of p left the bus.
watcher_exit(p, i) ==
    /\ ~fault
    /\ i \in DOMAIN prim[p].watchers
    /\ Done({}, g_attrib_unref([Cur EXCEPT !.prim[p].watchers = Remove(@, i)]),
            Ev("watcher_exit", p, i, 0, 0))

\* Disconnect
disconnect_service(p) ==
    /\ Callable
    /\ Called({p}, g_attrib_unref(stop_discovery([Cur EXCEPT !.out = <<Return("ok")>>], p)),
            Ev("disconnect_service", p, 0, 0, 0))

\* ------------------------------------------------- timers and transport
\* stop_discovery_timeout: an armed source fires and is removed.
stop_discovery_timeout(src) ==
    /\ ~fault
    /\ src \in sources
    /\ Done({src.prim}, stop_discovery([Cur EXCEPT !.sources = @ \ {src}], src.prim),
            Ev("stop_discovery_timeout", src.prim, src.id, 0, 0))

\* The remote closes the channel: the disconnect hook of the transport runs
\* and no request is answered any more.
remote_disconnect ==
    /\ ~fault
    /\ gatt.attrib /\ gatt.io = "up" /\ gatt.hooks
    /\ Done(Prims, attrib_disconnect([Cur EXCEPT !.gatt.io = "closed"]),
            Ev("attrib_disconnect", 0, 0, 1, 0))

\* attrib_client_disconnect: the device layer asks to disconnect the peer.
attrib_client_disconnect ==
    /\ Callable
    /\ Called(Prims, attrib_disconnect(Cur), Ev("attrib_client_disconnect", 0, 0, 0, 0))

\* A transport the caller of attrib_client_register hands over: connected,
\* one reference held by the caller, no hooks of the client on it.
SuppliedAttrib == [NoAttrib EXCEPT !.attrib = TRUE, !.refs = 1, !.io = "up"]

\* attrib_client_register: a gatt_service for the peer, with a reference on
\* the transport that was handed over, if any, and its primaries.
attrib_client_register(supplied, cache) ==
    /\ ~fault
    /\ reg.services = {}
    /\ gatt.refs = reg.supplied /\ sources = {}
    /\ LET s0 == [Cur EXCEPT !.gatt = IF supplied THEN SuppliedAttrib ELSE NoAttrib,
                             !.prim = NoPrims,
                             !.reg = [NoReg EXCEPT !.supplied = IF supplied THEN 1 ELSE 0]]
           s1 == IF supplied THEN g_attrib_ref(s0) ELSE s0
           s2 == [s1 EXCEPT !.reg.services = @ \cup {Peer}]
       IN  /\ Commit(register_primaries(s2, cache, 1))
           /\ disc' = [p \in Prims |-> NoDisc]
           /\ ev' = Ev("attrib_client_register", 0, 0, 0, IF supplied THEN 1 ELSE 0)
           /\ UNCHANGED <<calls, errs>>

\* What gatt_service_free does to the transport when it leaks the reference.
gatt_service_free_keeps_ref(s) == [s EXCEPT !.prim = NoPrims]

\* gatt_service_free: the primaries with their characteristics and watchers
\* are freed and the reference of the gatt_service is released.
gatt_service_free(s) == g_attrib_unref([s EXCEPT !.prim = NoPrims])

\* attrib_client_unregister: the gatt_service leaves gatt_services, the
\* interface of every characteristic and primary is unregistered, and the
\* gatt_service is freed. Requests and timers that are pending stay.
attrib_client_unregister ==
    /\ ~fault
    /\ Peer \in reg.services
    /\ LET s1 == [Cur EXCEPT !.reg.services = @ \ {Peer}]
           s2 == [s1 EXCEPT !.reg.objects =
                     @ \ UNION {{PrimPath(q)} \cup
                                {ChrPath(q, s1.prim[q].chars[k].handle) :
                                    k \in DOMAIN s1.prim[q].chars} : q \in Prims}]
       IN  /\ Commit(gatt_service_free(s2))
           /\ disc' = disc
           /\ ev' = Ev("attrib_client_unregister", 0, 0, 0, 0)
           /\ UNCHANGED <<calls, errs>>

\* The pending bt_io_connect completes, with or without an error.
connect_done(gerr) ==
    /\ ~fault
    /\ gatt.io = "connecting"
    /\ Done({}, connect_cb(Cur, gerr), Ev("connect_cb", 0, 0, IF gerr THEN 1 ELSE 0, 0))

\* A Handle Value Notification or Indication arrives.
EventHandles == {2, 8, 99}
\* The handles of the characteristics of the caches.
KnownHandles == {h \in EventHandles : \E p \in Prims : h = att_char(att[p].start).value_handle}
\* Without the handles of the primaries no method is called on.
OperatedHandles ==
    {h \in EventHandles : \A p \in Prims \ Operated : h < att[p].start \/ h > att[p].end}
\* The payload of an event: the bytes after the handle, NULL for none (a PDU
\* of three bytes).
Payloads == Values \cup {NULL}
received_event(opcode, short, handle, value, crash) ==
    /\ ~fault
    /\ gatt.attrib /\ gatt.io = "up"
    /\ short => (handle = 2 /\ value = 1)
    /\ crash => (~short /\ value = NULL)
    /\ Done({}, dispatch_event(Cur, gatt.events, opcode, short, handle, value, crash),
            [Ev("events_handler", 0, handle, opcode, IF short THEN 1 ELSE 0)
                EXCEPT !.value = value])

\* ------------------------------------------------------------ responses
\* The remote answers the request at the head of the queue.
Ready(cb) ==
    /\ ~fault
    /\ gatt.attrib /\ gatt.io = "up"
    /\ gatt.queue # <<>>
    /\ Head(gatt.queue).cb = cb

Popped == [Cur EXCEPT !.gatt.queue = Tail(@)]
Current == Head(gatt.queue)

Statuses(req) ==
    {0, ATT_ECODE_OTHER}
    \cup (IF errs < MaxSecErrors
          THEN {ATT_ECODE_AUTHENTICATION, ATT_ECODE_INSUFF_ENC} ELSE {})

char_discovered_of(remote) ==
    /\ Ready("char_discovered_cb")
    /\ \E status \in {0, ATT_ECODE_OTHER}, list \in remote[Current.prim] :
         Done({Current.prim},
              char_discovered_cb(Popped, Current, IF status = 0 THEN list ELSE <<>>, status),
              [Answer(Current, status, IF status = 0 THEN Len(list) ELSE 0)
                  EXCEPT !.list = IF status = 0 THEN list ELSE <<>>])

char_discovered == char_discovered_of([p \in Prims |-> RemoteChars(p)])

descriptor ==
    /\ Ready("descriptor_cb")
    /\ \E status \in {0, ATT_ECODE_OTHER}, list \in RemoteDescs(Current), format \in {1, 2} :
         /\ status # 0 => (list = <<>> /\ format = 1)
         /\ (Current.target > Current.tend) => status # 0
         /\ Done({Current.prim}, descriptor_cb(Popped, Current, status, list, format),
                 Answer(Current, status, 0))

read_value ==
    /\ Ready("update_char_value")
    /\ \E status \in Statuses(Current), value \in Values, set_ok \in BOOLEAN :
         /\ status # 0 => value = 1
         /\ ~SecurityError(status) => set_ok
         /\ Done({Current.prim}, update_char_value(Popped, Current, status, value, set_ok),
                 Answer(Current, status,
                    IF status = 0 THEN value ELSE 0))

read_cli_conf ==
    /\ Ready("update_char_cli_conf")
    /\ \E status \in {0, ATT_ECODE_OTHER}, len3 \in BOOLEAN, value \in DescValues :
         /\ (status # 0 \/ ~len3) => value = 1
         /\ status # 0 => len3
         /\ Done({Current.prim}, update_char_cli_conf(Popped, Current, status, len3, value),
                 Answer(Current, status, 0))

read_desc ==
    /\ Ready("update_char_desc")
    /\ \E status \in Statuses(Current), value \in DescValues, set_ok \in BOOLEAN :
         /\ status # 0 => value = 1
         /\ ~SecurityError(status) => set_ok
         /\ Done({Current.prim}, update_char_desc(Popped, Current, status, value, set_ok),
                 Answer(Current, status, 0))

read_format ==
    /\ Ready("update_char_format")
    /\ \E status \in {0, ATT_ECODE_OTHER}, len8 \in BOOLEAN, value \in DescValues :
         /\ (status # 0 \/ ~len8) => value = 1
         /\ status # 0 => len8
         /\ Done({Current.prim}, update_char_format(Popped, Current, status, len8, value),
                 Answer(Current, status, 0))

write_char ==
    /\ Ready("gatt_write_char_resp")
    /\ \E status \in Statuses(Current), set_ok \in BOOLEAN, crash \in BOOLEAN,
          garbage \in Values :
         /\ ~SecurityError(status) => set_ok
         /\ (status # 0 \/ prim[Current.prim].chars[Current.chr].msg.val # NULL \/ crash)
                => (crash /\ garbage = 1)
         /\ Done({Current.prim}, gatt_write_char_resp(Popped, Current, status, set_ok, crash, garbage),
                 Answer(Current, status, Current.value))

write_cli_conf ==
    /\ Ready("gatt_write_cli_conf_resp")
    /\ \E status \in Statuses(Current), set_ok \in BOOLEAN, crash \in BOOLEAN,
          garbage \in Values :
         /\ ~SecurityError(status) => set_ok
         /\ (status # 0 \/ prim[Current.prim].chars[Current.chr].msg.val # NULL \/ crash)
                => (crash /\ garbage = 1)
         /\ Done({Current.prim}, gatt_write_cli_conf_resp(Popped, Current, status, set_ok, crash, garbage),
                 Answer(Current, status, Current.value))

\* ----------------------------------------------------------------- Next
\* The transport and the main loop: connection, responses, timers.
Transport ==
    \/ \E gerr \in BOOLEAN : connect_done(gerr)
    \/ remote_disconnect
    \/ read_value

DiscoveryResponses ==
    \/ char_discovered
    \/ descriptor
    \/ read_cli_conf
    \/ read_desc
    \/ read_format
    \/ \E src \in sources : stop_discovery_timeout(src)

\* Discovery of the characteristics of a primary, and the ways it is cancelled.
NextDiscovery ==
    \/ \E p \in Operated : discover_char(p)
    \/ \E p \in Operated : disconnect_service(p)
    \/ attrib_client_disconnect
    \/ DiscoveryResponses
    \/ Transport

\* Reads and writes of characteristic values, next to a discovery.
NextValue ==
    \/ \E p \in Operated : discover_char(p)
    \/ \E p \in Operated : \E c \in DOMAIN prim[p].chars : fetch_value(p, c)
    \/ \E p \in Operated : \E c \in DOMAIN prim[p].chars : set_value(p, c)
    \/ \E p \in Operated : \E c \in DOMAIN prim[p].chars : set_cli_conf(p, c)
    \/ write_char
    \/ write_cli_conf
    \/ DiscoveryResponses
    \/ Transport

\* Watchers and the notifications and indications of the remote.
NextWatcher ==
    \/ \E p \in Operated, sender \in Senders, path \in Paths, args_ok \in BOOLEAN :
           register_watcher(p, sender, path, args_ok)
    \/ \E p \in Operated, sender \in Senders, path \in Paths :
           unregister_watcher(p, sender, path)
    \/ \E p \in Operated : \E i \in DOMAIN prim[p].watchers : watcher_exit(p, i)
    \/ \E opcode \in {ATT_OP_HANDLE_NOTIFY, ATT_OP_HANDLE_IND}, short \in BOOLEAN,
          handle \in OperatedHandles, value \in Payloads, crash \in BOOLEAN :
           received_event(opcode, short, handle, value, crash)
    \/ \E p \in Operated : \E c \in DOMAIN prim[p].chars : fetch_value(p, c)
    \/ \E p \in Operated : disconnect_service(p)
    \/ Transport

\* Watchers of every primary and the notifications and indications of the
\* characteristics of every primary.
NextDispatch ==
    \/ \E p \in Prims, sender \in Senders, path \in Paths :
           register_watcher(p, sender, path, TRUE)
    \/ \E opcode \in {ATT_OP_HANDLE_NOTIFY, ATT_OP_HANDLE_IND},
          handle \in KnownHandles, value \in Payloads, crash \in BOOLEAN :
           received_event(opcode, FALSE, handle, value, crash)
    \/ \E p \in Operated : \E c \in DOMAIN prim[p].chars : fetch_value(p, c)
    \/ \E gerr \in BOOLEAN : connect_done(gerr)

\* The list of watchers of a primary, with senders that use two paths.
WatcherPaths == Paths \cup {"/x"}
NextRegistry ==
    \/ \E p \in Operated, sender \in Senders, path \in WatcherPaths, args_ok \in BOOLEAN :
           register_watcher(p, sender, path, args_ok)
    \/ \E p \in Operated, sender \in Senders, path \in WatcherPaths :
           unregister_watcher(p, sender, path)
    \/ \E p \in Operated : \E i \in DOMAIN prim[p].watchers : watcher_exit(p, i)

\* Discovery again of a primary that has characteristics already, against a
\* remote that has up to two.
NextRediscovery ==
    \/ \E p \in Operated : calls < MaxRediscoveries /\ discover_char(p)
    \/ \E gerr \in BOOLEAN : connect_done(gerr)
    \/ char_discovered_of([p \in Prims |-> LayoutChars(p)])
    \/ descriptor
    \/ read_value
    \/ read_cli_conf
    \/ read_desc
    \/ read_format
    \/ \E src \in sources : stop_discovery_timeout(src)

\* Registration and removal of the client of a peer, around its discoveries.
InitRegister ==
    /\ gatt = NoAttrib /\ prim = NoPrims /\ reg = NoReg
    /\ sources = {}
    /\ fault = FALSE
    /\ replied = [m \in Msgs |-> 0]
    /\ out = <<>>
    /\ ev = NoEv
    /\ calls = 0
    /\ errs = 0
    /\ disc = [p \in Prims |-> NoDisc]

NextRegister ==
    \/ \E supplied \in BOOLEAN, cache \in CacheChoices([p \in Prims |-> Caches(p)]) :
           attrib_client_register(supplied, cache)
    \/ attrib_client_unregister
    \/ \E p \in Operated : reg.services # {} /\ discover_char(p)
    \/ \E gerr \in BOOLEAN : reg.services # {} /\ connect_done(gerr)
    \/ reg.services # {} /\ DiscoveryResponses

SpecRegister == InitRegister /\ [][NextRegister]_vars
SpecDiscovery == Init /\ [][NextDiscovery]_vars
SpecRediscovery == InitRediscovery /\ [][NextRediscovery]_vars
SpecValue == Init /\ [][NextValue]_vars
SpecWatcher == Init /\ [][NextWatcher]_vars
SpecDispatch == Init /\ [][NextDispatch]_vars
SpecRegistry == Init /\ [][NextRegistry]_vars

\* ================================================================ claims
Confirmations == {i \in DOMAIN out : out[i] = Confirmation}
Watchers == {pi \in Prims \X (1 .. MaxWatchers) : pi[2] \in DOMAIN prim[pi[1]].watchers}
PendingDiscoveries == {p \in Prims : prim[p].discovery_msg # NULL}
OwnRequests == {i \in DOMAIN gatt.queue : gatt.queue[i].cb # "char_discovered_cb"}

\* C1: a request answered with an authentication or encryption error is
\* re-issued at most once: no request on the transport is a third attempt.
C1_RetriedAtMostOnce ==
    \A i \in DOMAIN gatt.queue : gatt.queue[i].tries <= 2

\* C2: the reference count of the transport equals the number of operations
\* in flight (pending discoveries and requests of their own) plus the number
\* of watchers, plus one while a listening connection has its handlers.
C2_RefsAreOperationsAndWatchers ==
    gatt.refs = Cardinality(PendingDiscoveries) + Cardinality(OwnRequests)
                + Cardinality(Watchers)
                + (IF gatt.listen /\ gatt.events > 0 THEN 1 ELSE 0)

\* C3: a discovery message is answered exactly once: no reply goes to a
\* message that has been replied to before.
C3_DiscoveryRepliedOnce ==
    \A i \in DOMAIN out : out[i].t = "reply" => replied[out[i].id] <= 1

\* C4: an indication received while a handler is registered is answered with
\* a Handle Value Confirmation, whether or not its handle is known.
C4_IndicationConfirmed ==
    (/\ ev.op = "events_handler"
     /\ ev.status = ATT_OP_HANDLE_IND
     /\ ev.arg = 0
     /\ gatt.events >= 1)
        => Confirmations # {}

\* C5: one received indication yields one confirmation, however many
\* handler pairs are registered.
C5_OneConfirmationPerIndication ==
    ev.op = "events_handler" => Cardinality(Confirmations) <= 1

\* C6: a characteristic discovery that succeeds with an empty list and
\* leaves no characteristic ends the discovery with its reply at once.
C6_EmptyDiscoveryReplied ==
    (/\ ev.op = "char_discovered_cb"
     /\ ev.status = 0
     /\ ev.arg = 0
     /\ prim[ev.p].chars = <<>>)
        => /\ disc[ev.p].st # "running"
           /\ prim[ev.p].discovery_msg = NULL

\* C7: every registered watcher holds one reference to the transport.
C7_WatcherHoldsReference ==
    gatt.refs >= Cardinality(Watchers)

\* C8: a discovery releases the reference it took: once it has ended and all
\* requests have completed, a discovery that was alone on the transport leaves
\* the reference count as it found it.
C8_DiscoveryReleasesItsReference ==
    \A p \in Prims :
        (disc[p].st = "ended" /\ disc[p].alone /\ gatt.queue = <<>>)
            => gatt.refs = disc[p].before

\* C9: DiscoverCharacteristics on a primary whose discovery is pending is
\* refused with "Discovery already in progress" and changes nothing.
C9_SecondDiscoveryRejected ==
    [][\A p \in Prims :
          (prim[p].discovery_msg # NULL /\ ev'.op = "discover_char" /\ ev'.p = p)
             => /\ out' = <<Return("Discovery already in progress")>>
                /\ gatt' = gatt
                /\ prim' = prim
                /\ sources' = sources
                /\ replied' = replied]_vars

C9_Witness ==
    /\ ev.op = "discover_char"
    /\ prim[ev.p].discovery_msg # NULL
    /\ out = <<Return("Discovery already in progress")>>
    /\ gatt.queue # <<>>

\* C10: a read issued by UpdateValue that is answered ends with one reply to
\* its caller: the stored value and a success reply when the read succeeded, a
\* failure reply when it failed for another reason than security.
C10_UpdateValueReplied ==
    (/\ ev.op = "update_char_value"
     /\ ev.oper = "fetch_value"
     /\ ~SecurityError(ev.status))
        => IF ev.status = 0
           THEN /\ prim[ev.p].chars[ev.c].value = ev.arg
                /\ RepliesTo(out, ev.msg) # {}
                /\ \A i \in RepliesTo(out, ev.msg) : out[i].text = "ok"
           ELSE /\ RepliesTo(out, ev.msg) # {}
                /\ \A i \in RepliesTo(out, ev.msg) :
                       out[i].text = "Update characteristic value failed"

\* C11: a write issued by SetProperty("Value", v) that is answered ends with
\* the reply to its own caller: on success the cached value is v and the
\* caller gets the success reply, on an error other than a security error
\* the caller gets "Invalid arguments".
C11_WriteValueReplied ==
    (/\ ev.op = "gatt_write_char_resp"
     /\ ~SecurityError(ev.status))
        => IF ev.status = 0
           THEN /\ prim[ev.p].chars[ev.c].value = ev.arg
                /\ RepliesTo(out, ev.msg) # {}
                /\ \A i \in RepliesTo(out, ev.msg) : out[i].text = "ok"
           ELSE /\ RepliesTo(out, ev.msg) # {}
                /\ \A i \in RepliesTo(out, ev.msg) : out[i].text = "Invalid arguments"

\* The order the spec gives the characteristics of a primary: value handles
\* strictly increasing and inside the primary, each characteristic ending
\* just before the next value handle, the last with the primary.
Ordered(p) ==
    LET chars == prim[p].chars IN
    \A k \in DOMAIN chars :
        /\ att[p].start <= chars[k].handle /\ chars[k].handle <= att[p].end
        /\ IF k < Len(chars)
           THEN /\ chars[k].handle < chars[k + 1].handle
                /\ chars[k].end = chars[k + 1].handle - 1
           ELSE chars[k].end = att[p].end

DiscoverySucceeded ==
    /\ ev.op = "update_char_value"
    /\ ev.oper = "discover_char"
    /\ \E i \in RepliesTo(out, ev.msg) : out[i].text = "ok"

\* C12: when a discovery succeeds, the characteristics of its primary are
\* in handle order, inside the primary, and each ends just before the next
\* value handle or, the last, with the primary.
C12_DiscoveredCharsOrdered ==
    DiscoverySucceeded => Ordered(ev.p)

TimedOut(m) == Reply(m, "Discover characteristic values timed out", <<>>)

\* C13: when the watchdog of a pending discovery expires, the caller gets
\* "Discover characteristic values timed out", the characteristics and their
\* fields stay as they are and the discovery is no longer pending; a
\* DiscoverCharacteristics that follows is not refused as in progress and,
\* once connected, starts with the discovery of all characteristics of the
\* primary.
C13_WatchdogExpiry ==
    [][\A p \in Prims :
          /\ (ev'.op = "stop_discovery_timeout" /\ ev'.p = p
                 /\ prim[p].discovery_msg # NULL)
                => /\ out' = <<TimedOut(prim[p].discovery_msg)>>
                   /\ prim'[p].chars = prim[p].chars
                   /\ prim'[p].discovery_msg = NULL
                   /\ prim'[p].discovery_timer = 0
          /\ (ev.op = "stop_discovery_timeout" /\ ev.p = p
                 /\ ev'.op = "discover_char" /\ ev'.p = p)
                => \/ out' = <<Return("connect error")>>
                   \/ /\ out' = <<>>
                      /\ prim'[p].discovery_msg # NULL
                      /\ prim'[p].chars = prim[p].chars
                      /\ gatt'.queue # <<>>
                      /\ LET q == gatt'.queue[Len(gatt'.queue)] IN
                            /\ q.cb = "char_discovered_cb"
                            /\ q.prim = p
                            /\ q.target = att[p].start
                            /\ q.tend = att[p].end]_vars

C13_Witness ==
    /\ ev.op = "stop_discovery_timeout"
    /\ \E i \in DOMAIN out : out[i].t = "reply" /\ out[i] = TimedOut(out[i].id)
    /\ prim[ev.p].discovery_msg = NULL
    /\ \E k \in DOMAIN prim[ev.p].chars : prim[ev.p].chars[k].value # NULL

\* C14: when the connection of the transport fails, no operation stays
\* pending: every discovery and every read or write of a value has been
\* answered and its message cleared.
C14_ConnectFailureFailsPending ==
    (ev.op = "connect_cb" /\ ev.status = 1)
        => \A p \in Prims :
              /\ prim[p].discovery_msg = NULL
              /\ \A k \in DOMAIN prim[p].chars : prim[p].chars[k].msg = NoMsg

\* The entry of a characteristic in the cache.
Entries(chars) ==
    [k \in DOMAIN chars |-> [handle |-> chars[k].handle, perm |-> chars[k].perm,
                             end |-> chars[k].end, type |-> chars[k].type]]

\* A uuid string: not empty, no space, at most 36 characters.
WellFormedEntries(chars) ==
    \A k \in DOMAIN chars :
        /\ chars[k].type # <<>>
        /\ Len(chars[k].type) <= 36
        /\ \A i \in DOMAIN chars[k].type : chars[k].type[i] # " "

\* C16: parsing the string that serialises a well-formed list of
\* characteristics gives the same entries in the same order.
C16_CacheRoundTrip ==
    \A p \in Prims :
        WellFormedEntries(prim[p].chars)
            => Entries(string_to_characteristic_list(
                          characteristic_list_to_string(prim[p].chars)))
                   = Entries(prim[p].chars)

C16_Witness ==
    /\ ev.op = "char_discovered_cb"
    /\ ev.status = 0
    /\ Len(prim[ev.p].chars) = 2
    /\ WellFormedEntries(prim[ev.p].chars)
    /\ Len(characteristic_list_to_string(prim[ev.p].chars)) = 68

Handles(chars) == {chars[k].handle : k \in DOMAIN chars}

\* C15: the characteristic discovery of a primary that has characteristics
\* keeps them as they are (handle, end, properties, uuid), creates none for
\* a value handle it has already, and, when the remote returns the list
\* they came from, leaves the same characteristics.
C15_RediscoveryKeepsChars ==
    [][\A p \in Prims :
          (ev'.op = "char_discovered_cb" /\ ev'.p = p /\ ev'.status = 0)
             => LET old == prim[p].chars
                    new == prim'[p].chars
                IN  /\ Len(new) >= Len(old)
                    /\ Entries(SubSeq(new, 1, Len(old))) = Entries(old)
                    /\ \A k \in Len(old) + 1 .. Len(new) :
                          /\ new[k].handle \notin Handles(old)
                          /\ \A j \in 1 .. k - 1 : new[j].handle # new[k].handle
                    /\ (Entries(old) =
                           Entries(discovered_chars(<<>>, ev'.list, att[p].end)))
                          => Entries(new) = Entries(old)]_vars

C15_Witness ==
    /\ ev.op = "char_discovered_cb"
    /\ ev.status = 0
    /\ Len(ev.list) = 2
    /\ disc[ev.p].had = 2
    /\ Entries(prim[ev.p].chars) =
          Entries(discovered_chars(<<>>, ev.list, att[ev.p].end))


\* C17: attrib_client_unregister leaves no published object of the peer and
\* no gatt_service in gatt_services, and when it directly follows
\* attrib_client_register the client holds no reference on a transport: the
\* reference taken on a transport that was handed over is released once, and
\* the only reference left is the one of the caller.
C17_RegisterThenUnregister ==
    [][ev'.op = "attrib_client_unregister" =>
          /\ reg'.objects = {} /\ reg'.services = {}
          /\ ev.op = "attrib_client_register" =>
                /\ ~fault'
                /\ gatt'.refs = reg'.supplied
                /\ ev.arg = 1 => (gatt.refs = 2 /\ gatt'.refs = 1)
                /\ ev.arg = 0 => (gatt.refs = 0 /\ gatt'.refs = 0)]_vars

\* A client registered with a transport of the caller has been unregistered
\* before any operation was started: the caller's reference is the only one.
C17_Witness ==
    /\ ev.op = "attrib_client_unregister"
    /\ reg.supplied = 1 /\ gatt.refs = 1
    /\ reg.objects = {} /\ reg.services = {}
    /\ calls = 0


\* C18: a notification or an indication of three bytes or more that
\* events_handler is called with, for the handle of a characteristic, makes
\* the payload the value of the characteristic, sends ValueChanged with the
\* characteristic and the payload to every watcher of the primary the
\* characteristic is in and to nobody else, and sends a confirmation when it
\* is an indication.
ValueChangedCalls == {i \in DOMAIN out : out[i].t = "ValueChanged"}
C18_ValueChangeDispatch ==
    (ev.op = "events_handler" /\ ev.arg = 0 /\ gatt.events >= 1) =>
        \A p \in Prims : \A c \in DOMAIN prim[p].chars :
            prim[p].chars[c].handle = ev.c =>
                /\ prim[p].chars[c].value = ev.value
                /\ \A k \in DOMAIN prim[p].watchers : \E i \in ValueChangedCalls :
                       out[i] = ValueChanged(prim[p].watchers[k], ev.c, ev.value)
                /\ \A i \in ValueChangedCalls : \E k \in DOMAIN prim[p].watchers :
                       out[i] = ValueChanged(prim[p].watchers[k], ev.c, ev.value)
                /\ ev.status = ATT_OP_HANDLE_IND => Confirmations # {}


\* C19: RegisterCharacteristicsWatcher appends an entry for the sender and
\* the path also when the list has such an entry already;
\* UnregisterCharacteristicsWatcher removes one entry with the sender and the
\* path of the call and returns, and when the list has none it answers
\* Not Authorized and leaves the list as it is.
C19_WatcherRegistry ==
    [][LET p == ev'.p
           w == [name |-> ev'.watcher[1], path |-> ev'.watcher[2]]
           hits == {i \in DOMAIN prim[p].watchers : prim[p].watchers[i] = w}
       IN  /\ (ev'.op = "register_watcher" /\ ev'.status = 1) =>
                 /\ prim'[p].watchers = Append(prim[p].watchers, w)
                 /\ out' = <<Return("ok")>>
           /\ ev'.op = "unregister_watcher" =>
                 IF hits = {}
                 THEN prim'[p].watchers = prim[p].watchers
                      /\ out' = <<Return("Not Authorized")>>
                 ELSE (\E i \in hits : prim'[p].watchers = Remove(prim[p].watchers, i))
                      /\ out' = <<Return("ok")>>]_vars

\* An entry was removed and an equal one is still in the list: the sender
\* had registered the same path twice.
C19_Witness ==
    /\ ev.op = "unregister_watcher" /\ ev.status = 1
    /\ prim[ev.p].watchers = <<[name |-> ev.watcher[1], path |-> ev.watcher[2]]>>
    /\ out = <<Return("ok")>>


\* C20: a request that is sent again after the security level was raised
\* is the request that failed: a write of the client configuration goes to
\* the handle of the client configuration descriptor with the payload of
\* the call, a write of the value to the value handle, and a read of a
\* descriptor to the handle of the descriptor.
DescriptorReads == {"update_char_cli_conf", "update_char_desc", "update_char_format"}
C20_RetryRepeatsRequest ==
    \A i \in DOMAIN gatt.queue :
        LET q == gatt.queue[i]
            chr == prim[q.prim].chars[q.chr]
        IN  q.tries > 1 =>
              /\ q.cb = "gatt_write_cli_conf_resp" =>
                    (q.target = chr.cli_conf_hndl /\ q.value = chr.msg.val)
              /\ q.cb = "gatt_write_char_resp" =>
                    (q.target = chr.handle /\ q.value = chr.msg.val)
              /\ q.cb \in DescriptorReads => q.target = q.handle


\* C21: after char_discovered_cb has merged a list, a characteristic it
\* created that is followed in the list by another one it created ends one
\* handle before the declaration of that one, and the last one it created
\* ends with the primary.
C21_EndBeforeNextDeclaration ==
    (ev.op = "char_discovered_cb" /\ ev.status = 0) =>
        LET chars == prim[ev.p].chars
            had == disc[ev.p].had
            created(cur) == \E k \in had + 1 .. Len(chars) : chars[k].handle = cur.value_handle
            chr_of(cur) == chars[CHOOSE k \in DOMAIN chars : chars[k].handle = cur.value_handle]
        IN  /\ \A i \in 1 .. Len(ev.list) - 1 :
                  (created(ev.list[i]) /\ created(ev.list[i + 1]))
                      => chr_of(ev.list[i]).end = ev.list[i + 1].handle - 1
            /\ Len(chars) > had => chars[Len(chars)].end = att[ev.p].end


\* C22: the requests char_discovered_cb leaves on the transport for the
\* characteristics of the primary: a Read of the value handle for each, and
\* a Find Information over the handles after the value handle up to the end
\* for each that has such handles, none for one that has not.
RequestsOf(p, k, cb) ==
    {i \in DOMAIN gatt.queue :
        gatt.queue[i].cb = cb /\ gatt.queue[i].prim = p /\ gatt.queue[i].chr = k}
C22_FindInformationOnlyWithRange ==
    (ev.op = "char_discovered_cb" /\ ev.status = 0) =>
        \A k \in DOMAIN prim[ev.p].chars :
            LET chr == prim[ev.p].chars[k]
                finds == RequestsOf(ev.p, k, "descriptor_cb")
                reads == RequestsOf(ev.p, k, "update_char_value")
            IN  /\ Cardinality(reads) = 1
                /\ \A i \in reads : gatt.queue[i].target = chr.handle
                /\ IF chr.end < chr.handle + 1
                   THEN finds = {}
                   ELSE /\ Cardinality(finds) = 1
                        /\ \A i \in finds : /\ gatt.queue[i].target = chr.handle + 1
                                             /\ gatt.queue[i].tend = chr.end


\* C23: while a discovery is pending, a read of a value or of a descriptor
\* that completes and is not tagged last replaces the watchdog of the
\* discovery by a new one; the one tagged last sends the reply of the
\* discovery and leaves no watchdog.
ReadCallbacks == {"update_char_value"} \cup DescriptorReads
C23_ReadsRearmWatchdog ==
    [][(/\ ev'.op \in ReadCallbacks
        /\ ~fault'
        /\ gatt.queue # <<>>
        /\ gatt'.queue = Tail(gatt.queue)
        /\ prim[ev'.p].discovery_msg # NULL)
          => LET p == ev'.p
                 old == prim[p].discovery_timer
                 new == prim'[p].discovery_timer
                 live == {x.id : x \in sources'}
             IN  /\ old # 0 => old \notin live
                 /\ IF Head(gatt.queue).last
                    THEN /\ new = 0
                         /\ \E i \in RepliesTo(out', prim[p].discovery_msg) :
                                out'[i].text = "ok"
                    ELSE new # 0 /\ new # old /\ new \in live]_vars


\* C24: with no discovery on the primary, the answer to a request of
\* UpdateValue, SetProperty("Value") or SetProperty("ClientConfiguration")
\* that ends the operation gives the caller of that operation one reply,
\* the only one it gets, whatever other operation was accepted on the
\* characteristic in the meantime.
CharacteristicCalls == {"fetch_value", "set_value", "set_cli_conf"}
C24_OverlappingRequestsReplied ==
    (/\ ev.oper \in CharacteristicCalls
     /\ ev.op \in {"update_char_value", "gatt_write_char_resp", "gatt_write_cli_conf_resp"}
     /\ ~SecurityError(ev.status)
     /\ disc[ev.p].st = "none")
        => /\ ~fault
           /\ Cardinality(RepliesTo(out, ev.msg)) = 1
           /\ replied[ev.msg] = 1


\* C25: when char_discovered_cb is called with an error it sends the failure
\* to the caller of the discovery and the primary has no discovery pending
\* any more; a DiscoverCharacteristics on the primary that follows is not
\* refused as in progress.
C25_FailedDiscoveryCleared ==
    [][/\ (ev'.op = "char_discovered_cb" /\ ev'.status # 0)
             => /\ RepliesTo(out', ev'.msg) # {}
                /\ prim'[ev'.p].discovery_msg = NULL
       /\ (ev.op = "char_discovered_cb" /\ ev.status # 0
               /\ ev'.op = "discover_char" /\ ev'.p = ev.p)
             => out' # <<Return("Discovery already in progress")>>]_vars


\* C26: the transport is not destroyed while a request of an operation that
\* is still going on waits for its answer: when a step leaves the service
\* without transport, every request that was on it is the one the step has
\* answered or belongs to a discovery the step has ended.
C26_TransportOutlivesRequests ==
    [][(gatt.attrib /\ ~gatt'.attrib) =>
          \A i \in DOMAIN gatt.queue :
              LET q == gatt.queue[i] IN
              \/ i = 1 /\ ev'.op = q.cb
              \/ /\ q.oper = "discover_char"
                 /\ prim'[q.prim].discovery_msg # q.msg]_vars


\* C27: a value read issued by a discovery that has ended, answered while a
\* newer discovery is pending on the same primary, leaves the newer discovery
\* alone: it sends no reply to the newer discovery's message and it leaves
\* the newer discovery's watchdog as it was.
C27_StaleReadLeavesNewerDiscovery ==
    [][(/\ gatt.queue # <<>>
        /\ ev'.op = "update_char_value"
        /\ gatt.queue[1].cb = "update_char_value"
        /\ gatt.queue[1].oper = "discover_char"
        /\ prim[gatt.queue[1].prim].discovery_msg # NULL
        /\ prim[gatt.queue[1].prim].discovery_msg # gatt.queue[1].msg)
          => LET p == gatt.queue[1].prim IN
             /\ RepliesTo(out', prim[p].discovery_msg) = {}
             /\ prim'[p].discovery_timer = prim[p].discovery_timer
             /\ sources' = sources]_vars


\* C28: requests being answered in the order they were sent, when the success
\* reply of a discovery is sent no Find Information and no descriptor read
\* issued by that discovery is still waiting for its answer.
DescriptorRequests == {"descriptor_cb"} \cup DescriptorReads
Cancellations == {"attrib_disconnect", "attrib_client_disconnect", "disconnect_service"}
C29_CancelDisarmsWatchdog ==
    [][ev'.op \in Cancellations =>
          \A p \in Prims :
              (prim[p].discovery_msg # NULL /\ prim'[p].discovery_msg = NULL)
                  => \A x \in sources' : x.prim # p]_vars

====
